---- MODULE Spec2Model ----
(***************************************************************************)
(* Model of quantum_simulator_backend/app.py: the start-up probe of the    *)
(* IBM Quantum runtime service (module level, lines 36-126) and the        *)
(* /simulate request handler simulate_circuit (lines 129-263), together    *)
(* with the /get_statevector and /get_probabilities handlers described in  *)
(* the design document (their code is not part of app.py).                 *)
(*                                                                         *)
(* External collaborators (the QASM parser, the transpiler, the Aer        *)
(* simulator, the runtime service, Flask) are modelled by their outcomes:  *)
(* each call either returns a value drawn from a bounded set or raises.    *)
(***************************************************************************)
EXTENDS Integers, Sequences, FiniteSets, TLC

VARIABLES
    \* ---- process-wide state (module level) ----
    spc,                        \* position of the start-up code
    apiKey,                     \* IBM_API_KEY is set (line 28)
    service,                    \* "None" or "svc" (line 36)
    ibm_simulators_available,   \* line 37
    initFailed,                 \* the except clause of line 114 ran
    \* ---- per-request state ----
    endpoint,                   \* the route being served
    pc,                         \* position of the handler
    data,                       \* request.get_json()
    shots,                      \* data.get('shots', 1024)
    parsed,                     \* the circuit as from_qasm_str returned it
    circuit,                    \* the circuit object, mutated in place
    warned,                     \* the warning of lines 183-184 was printed
    remoteFailed,               \* the except clause of line 231 ran
    backendName,                \* actual_ibm_backend_name
    result,                     \* job.result() of the remote job
    aerErr,                     \* the exception local execution raised
    response,                   \* the HTTP response of the request
    remoteCalls,                \* calls made on the remote service
    submitted,                  \* service.run calls
    localRuns,                  \* local executions (aer_sim.run, amplitude computation)
    responses                   \* responses sent for the request

vars == <<spc, apiKey, service, ibm_simulators_available, initFailed,
          endpoint, pc, data, shots, parsed, circuit, warned, remoteFailed,
          backendName, result, aerErr, response, remoteCalls, submitted,
          localRuns, responses>>

startupVars == <<spc, apiKey, service, ibm_simulators_available, initFailed>>

requestVars == <<endpoint, pc, data, shots, parsed, circuit, warned,
                 remoteFailed, backendName, result, aerErr, response,
                 remoteCalls, submitted, localRuns, responses>>

(***************************************************************************)
(* Bounds of the model.                                                    *)
(***************************************************************************)
MaxQubits == 2        \* qubits of a submitted circuit
MaxRegs == 2          \* classical registers a submitted circuit declares
MaxRegSize == 1       \* bits of a declared classical register
MaxMeasures == 1      \* measurement operations of a submitted circuit
MaxShots == 1         \* explicit shot counts 1..MaxShots
MaxKey == 2           \* largest integer key of a quasi-distribution
ProbDenominator == 4  \* quasi-probabilities are n / ProbDenominator
MaxAmpQubits == 17    \* qubits of a circuit sent to the amplitude endpoints

(***************************************************************************)
(* Program constants.                                                      *)
(***************************************************************************)
DefaultShots == 1024  \* data.get('shots', 1024)
QubitCeiling == 16    \* the qubit ceiling of the amplitude endpoints

LOCAL_BACKEND == "local_aer_simulator"
NoName == "none"

(***************************************************************************)
(* Circuits.  A circuit is [nq, cregs, ops]: the number of qubits, the     *)
(* list of classical registers [name, size] and the list of operations     *)
(* [name, q, c]; c is the circuit-wide index of the classical bit a        *)
(* measure writes (-1 for other operations).                               *)
(***************************************************************************)
RECURSIVE SumSizes(_)
SumSizes(regs) ==
    IF regs = <<>> THEN 0 ELSE Head(regs).size + SumSizes(Tail(regs))

num_qubits(circ) == circ.nq

num_clbits(circ) == SumSizes(circ.cregs)

Gate(q) == [name |-> "h", q |-> q, c |-> -1]

Barrier == [name |-> "barrier", q |-> -1, c |-> -1]

Measure(q, c) == [name |-> "measure", q |-> q, c |-> c]

RegNames == <<"c0", "c1", "c2", "c3">>

RegLists ==
    UNION { { [i \in 1..n |-> [name |-> RegNames[i], size |-> sz[i]]] :
                sz \in [1..n -> 1..MaxRegSize] } : n \in 0..MaxRegs }

\* The measurement operations a submitted circuit may hold.  The parser is an
\* external collaborator; lines 174-185 provide for a measure whose classical
\* bit index is not below the classical-bit count, so that target (c = ncl)
\* is among the inputs, next to the first bit.
MeasureOps(nq, ncl) ==
    { Measure(q, c) : q \in 0..(nq - 1), c \in {0, ncl} }

MeasureSeqs(nq, ncl) ==
    UNION { [1..n -> MeasureOps(nq, ncl)] : n \in 0..MaxMeasures }

GatePrefix(nq) == IF nq > 0 THEN <<Gate(0)>> ELSE <<>>

\* The circuits QuantumCircuit.from_qasm_str may return.
ParsedCircuits ==
    UNION { { [nq |-> nq, cregs |-> regs, ops |-> GatePrefix(nq) \o ms] :
                ms \in MeasureSeqs(nq, SumSizes(regs)) } :
            nq \in 0..MaxQubits, regs \in RegLists }

\* No circuit has been parsed.
NoCircuit == [nq |-> -1, cregs |-> <<>>, ops |-> <<>>]

(***************************************************************************)
(* Circuit normalisation, lines 148-185.                                   *)
(***************************************************************************)
\* line 150: any(instr.operation.name == 'measure' for instr in circuit.data)
has_measure_ops(circ) ==
    \E i \in 1..Len(circ.ops) : circ.ops[i].name = "measure"

\* line 162: while circuit.cregs: circuit.remove_register(circuit.cregs[0])
RECURSIVE RemoveRegisters(_)
RemoveRegisters(circ) ==
    IF circ.cregs = <<>> THEN circ
    ELSE RemoveRegisters([circ EXCEPT !.cregs = Tail(circ.cregs)])

\* lines 164-165: add_register(ClassicalRegister(num_qubits, 'c_auto'))
AddAutoRegister(circ) ==
    [circ EXCEPT !.cregs = Append(@, [name |-> "c_auto", size |-> circ.nq])]

\* line 168: QuantumCircuit.measure_all(inplace=True), add_bits left at its
\* default True: a new register 'meas' of num_qubits bits is added after the
\* existing ones, then a barrier, then qubit i is measured into meas[i].
measure_all(circ) ==
    LET base == num_clbits(circ) IN
    [circ EXCEPT
        !.cregs = Append(@, [name |-> "meas", size |-> circ.nq]),
        !.ops = @ \o <<Barrier>> \o
                [i \in 1..circ.nq |-> Measure(i - 1, base + i - 1)]]

\* lines 176-181: the highest classical-bit index a measure writes, or -1.
max_clbit_measured(circ) ==
    LET idx == { circ.ops[i].c :
                   i \in { j \in 1..Len(circ.ops) : circ.ops[j].name = "measure" } }
    IN IF idx = {} THEN -1 ELSE CHOOSE m \in idx : \A x \in idx : x <= m

\* line 182: the condition under which the warning is printed.
ClbitWarning(circ) ==
    /\ max_clbit_measured(circ) # -1
    /\ num_clbits(circ) <= max_clbit_measured(circ)

\* line 162 is reached and has a register to remove.
RemovesRegisters(circ) ==
    /\ ~has_measure_ops(circ)
    /\ num_qubits(circ) > 0
    /\ num_clbits(circ) < num_qubits(circ)
    /\ circ.cregs # <<>>

\* Fault: measure_all is applied whether or not the circuit already measures.
NormalizeAlwaysMeasures(circ) ==
    IF num_qubits(circ) > 0 THEN measure_all(circ) ELSE circ

\* lines 152-185, the circuit after the measurement handling.
NormalizeCircuit(circ) ==
    IF ~has_measure_ops(circ)
    THEN IF num_qubits(circ) > 0
         THEN IF num_clbits(circ) < num_qubits(circ)
              THEN measure_all(AddAutoRegister(RemoveRegisters(circ)))
              ELSE measure_all(circ)
         ELSE circ
    ELSE circ

(***************************************************************************)
(* Result shaping.                                                         *)
(***************************************************************************)
Repeat(ch, n) == [i \in 1..n |-> ch]

BitChar(b) == IF b = 0 THEN "0" ELSE "1"

RECURSIVE BinDigits(_)
BinDigits(k) ==
    IF k < 2 THEN <<BitChar(k)>>
    ELSE BinDigits(k \div 2) \o <<BitChar(k % 2)>>

\* f"{int(key):0{num_clbits}b}": the binary digits of key, left-padded with
\* zeros to at least num_clbits characters.
FormatBinary(k, w) ==
    LET d == BinDigits(k) IN
    IF Len(d) >= w THEN d ELSE Repeat("0", w - Len(d)) \o d

DecimalDigits == <<"0", "1", "2", "3", "4", "5", "6", "7", "8", "9">>

\* str(key) for a key below 10.
DecimalStr(k) == <<DecimalDigits[k + 1]>>

\* Fault: the product is floored, which differs for negative quasi-probabilities.
IntFloor(n, shotCount) == (n * shotCount) \div ProbDenominator

\* int(value * shots) for value = n / ProbDenominator: the product truncated
\* towards zero (floating-point error of the product is not modelled).
IntTrunc(n, shotCount) ==
    LET x == n * shotCount IN
    IF x >= 0 THEN x \div ProbDenominator ELSE -((-x) \div ProbDenominator)

\* line 216: the width of the keys.
KeyWidth(tclbits, nq) == IF tclbits > 0 THEN tclbits ELSE nq

\* lines 215-220: the counts made from the quasi-distribution counts_data.
ShapeQuasiCounts(counts_data, tclbits, nq, shotCount) ==
    LET w == KeyWidth(tclbits, nq)
        keyOf(k) == IF w > 0 THEN FormatBinary(k, w) ELSE DecimalStr(k)
    IN [s \in { keyOf(k) : k \in DOMAIN counts_data } |->
          LET k == CHOOSE x \in DOMAIN counts_data : keyOf(x) = s
          IN IntTrunc(counts_data[k], shotCount)]

\* The key of a counts dictionary of the local simulator for a circuit whose
\* classical bits all read v: the registers' bits, last register first,
\* separated by spaces.
RECURSIVE RegisterKey(_, _)
RegisterKey(regs, v) ==
    IF regs = <<>> THEN <<>>
    ELSE IF Len(regs) = 1 THEN Repeat(v, regs[1].size)
    ELSE RegisterKey(Tail(regs), v) \o <<" ">> \o Repeat(v, regs[1].size)

NoCounts == <<>>

(***************************************************************************)
(* Requests and responses.                                                 *)
(***************************************************************************)
Endpoints == {"simulate", "get_statevector", "get_probabilities"}

AmplitudeEndpoints == {"get_statevector", "get_probabilities"}

\* The JSON values request.get_json() may return: [kind, truthy, hasQasm].
\* truthy is Python's truth value of the value; hasQasm says that 'qasm' is a
\* key of the object, an element of the array or a substring of the string.
Bodies ==
    { [kind |-> "null", truthy |-> FALSE, hasQasm |-> FALSE] }
    \cup { [kind |-> k, truthy |-> FALSE, hasQasm |-> FALSE] :
             k \in {"object", "array", "string", "number", "bool"} }
    \cup { [kind |-> k, truthy |-> TRUE, hasQasm |-> h] :
             k \in {"object", "array", "string"}, h \in BOOLEAN }
    \cup { [kind |-> k, truthy |-> TRUE, hasQasm |-> FALSE] :
             k \in {"number", "bool"} }

NoBody == [kind |-> "null", truthy |-> FALSE, hasQasm |-> FALSE]

\* The body is a JSON object with a 'qasm' field.
HasQasmField(body) == body.kind = "object" /\ body.hasQasm

\* 'qasm' not in data raises TypeError for a number or a boolean.
MembershipRaises(body) == body.kind \in {"number", "bool"}

\* data['qasm'] raises TypeError for a list or a string.
SubscriptRaises(body) == body.kind \in {"array", "string"}

\* line 132: not data or 'qasm' not in data   (evaluated left to right)
MissingQasmCheck(body) ==
    \/ ~body.truthy
    \/ (~MembershipRaises(body) /\ ~body.hasQasm)

\* lines 132-135 raise an exception nothing catches.
BodyRaises(body) ==
    /\ body.truthy
    /\ \/ MembershipRaises(body)
       \/ (body.hasQasm /\ SubscriptRaises(body))

ShotChoices == (1..MaxShots) \cup {DefaultShots}

NoError == <<>>

MissingQasmError == <<"Missing 'qasm' in request body">>

InvalidQasmError == <<"Invalid QASM input">>

QubitCountError == <<"Invalid qubit count">>

LocalErrors == {"AerError", "QiskitError"}

LocalErrorMessage(e) == <<"Error during local Aer simulation: ", e>>

\* Fault: the message of the exception is left out.
LocalErrorWithoutCause(e) == <<"Error during local Aer simulation">>

ComputeError == <<"Error during computation">>

NoResponse ==
    [status |-> 0, error |-> NoError, backend_used |-> NoName,
     job_id |-> NoName, shots |-> 0, counts |-> NoCounts]

ErrorResponse(code, err) ==
    [status |-> code, error |-> err, backend_used |-> NoName,
     job_id |-> NoName, shots |-> 0, counts |-> NoCounts]

\* The response Flask sends for an exception the handler does not catch.
UnhandledResponse == ErrorResponse(500, NoError)

\* lines 228-229
RemoteSuccess(name, shotCount, counts) ==
    [status |-> 200, error |-> NoError, backend_used |-> name,
     job_id |-> "job", shots |-> shotCount, counts |-> counts]

\* Fault: the 500 response does not carry the cause.
LocalFailureHidesCause(e) ==
    [status |-> 500, error |-> LocalErrorWithoutCause(e),
     backend_used |-> NoName, job_id |-> NoName, shots |-> 0,
     counts |-> NoCounts]

\* lines 259-263
LocalFailure(e) ==
    [status |-> 500, error |-> LocalErrorMessage(e),
     backend_used |-> NoName, job_id |-> NoName, shots |-> 0,
     counts |-> NoCounts]

\* lines 253-258
LocalSuccess(shotCount, counts) ==
    [status |-> 200, error |-> NoError, backend_used |-> LOCAL_BACKEND,
     job_id |-> NoName, shots |-> shotCount, counts |-> counts]

(***************************************************************************)
(* Results of a remote job.                                                *)
(***************************************************************************)
Min(a, b) == IF a < b THEN a ELSE b

RECURSIVE Pow2(_)
Pow2(n) == IF n = 0 THEN 1 ELSE 2 * Pow2(n - 1)

Numerators == {-1, 1, ProbDenominator - 1, ProbDenominator}

\* Quasi-distributions over the basis states of w classical bits.
QuasiDists(w) ==
    LET kmax == Min(Pow2(w) - 1, MaxKey) IN
    UNION { [ks -> Numerators] : ks \in {{0}, {kmax}, {0, kmax}} }

\* job.result(): a quasi-distribution, an object with get_counts, a list of
\* objects with data.counts, or an object of none of these shapes.
RemoteResults(circ, shotCount) ==
    LET w == KeyWidth(num_clbits(circ), num_qubits(circ))
        c == (RegisterKey(circ.cregs, "0") :> shotCount)
    IN { [kind |-> "quasi", payload |-> q] : q \in QuasiDists(w) }
       \cup { [kind |-> k, payload |-> c] : k \in {"get_counts", "list"} }
       \cup { [kind |-> "unrecognised", payload |-> NoCounts] }

\* No result has been retrieved.
NoResult == [kind |-> "absent", payload |-> NoCounts]

\* lines 213-225: the counts of the response.  transpile keeps the classical
\* bits of the circuit, so transpiled_circuit.num_clbits is num_clbits(circ).
ShapeCounts(res, circ, shotCount) ==
    IF res.kind = "quasi"
    THEN ShapeQuasiCounts(res.payload, num_clbits(circ), num_qubits(circ),
                          shotCount)
    ELSE IF res.kind \in {"get_counts", "list"} THEN res.payload
    ELSE NoCounts

(***************************************************************************)
(* Initial state: the module has been imported up to line 37.              *)
(***************************************************************************)
IdleRequest ==
    /\ endpoint = "simulate"
    /\ pc = "idle"
    /\ data = NoBody
    /\ shots = 0
    /\ parsed = NoCircuit
    /\ circuit = NoCircuit
    /\ warned = FALSE
    /\ remoteFailed = FALSE
    /\ backendName = NoName
    /\ result = NoResult
    /\ aerErr = NoName
    /\ response = NoResponse
    /\ remoteCalls = 0
    /\ submitted = 0
    /\ localRuns = 0
    /\ responses = 0

Init ==
    /\ spc = "start"
    /\ apiKey \in BOOLEAN
    /\ service = "None"
    /\ ibm_simulators_available = FALSE
    /\ initFailed = FALSE
    /\ IdleRequest

(***************************************************************************)
(* Start-up, lines 40-126.                                                 *)
(***************************************************************************)
\* lines 125-126: no API key, nothing is probed.
StartWithoutKey ==
    /\ spc = "start"
    /\ ~apiKey
    /\ spc' = "ready"
    /\ UNCHANGED <<apiKey, service, ibm_simulators_available, initFailed>>
    /\ UNCHANGED requestVars

\* lines 47-60: QiskitRuntimeService.save_account returns.
SaveAccount ==
    /\ spc = "start"
    /\ apiKey
    /\ spc' = "instantiate"
    /\ UNCHANGED <<apiKey, service, ibm_simulators_available, initFailed>>
    /\ UNCHANGED requestVars

\* lines 63-70: the service is instantiated.
InstantiateService ==
    /\ spc = "instantiate"
    /\ service' = "svc"
    /\ spc' = "diagnostic"
    /\ UNCHANGED <<apiKey, ibm_simulators_available, initFailed>>
    /\ UNCHANGED requestVars

\* lines 72-99: the diagnostic listing; its own try/except (lines 74, 97)
\* absorbs every failure of the listing.
ListAllBackends ==
    /\ spc = "diagnostic"
    /\ spc' = "fetch"
    /\ UNCHANGED <<apiKey, service, ibm_simulators_available, initFailed>>
    /\ UNCHANGED requestVars

\* lines 103-107: operational simulators were found; the flag is set.
FetchSimulatorsFound ==
    /\ spc = "fetch"
    /\ ibm_simulators_available' = TRUE
    /\ spc' = "report"
    /\ UNCHANGED <<apiKey, service, initFailed>>
    /\ UNCHANGED requestVars

\* lines 103-112: no operational simulator was found.
FetchSimulatorsNone ==
    /\ spc = "fetch"
    /\ spc' = "ready"
    /\ UNCHANGED <<apiKey, service, ibm_simulators_available, initFailed>>
    /\ UNCHANGED requestVars

\* lines 108-109: the names of the first simulators are reported.
ReportSimulators ==
    /\ spc = "report"
    /\ spc' = "ready"
    /\ UNCHANGED <<apiKey, service, ibm_simulators_available, initFailed>>
    /\ UNCHANGED requestVars

\* The steps of the try block of line 47 that are not inside the inner try.
ProbeSteps == {"instantiate", "fetch", "report"}

\* lines 114-124: a step of the probe raised; the handler resets service.
StartupStepRaises ==
    /\ \/ (spc = "start" /\ apiKey)
       \/ spc \in ProbeSteps
    /\ service' = "None"
    /\ initFailed' = TRUE
    /\ spc' = "ready"
    /\ UNCHANGED <<apiKey, ibm_simulators_available>>
    /\ UNCHANGED requestVars

Startup ==
    \/ StartWithoutKey
    \/ SaveAccount
    \/ InstantiateService
    \/ ListAllBackends
    \/ FetchSimulatorsFound
    \/ FetchSimulatorsNone
    \/ ReportSimulators
    \/ StartupStepRaises

(***************************************************************************)
(* /simulate, lines 129-263.                                               *)
(***************************************************************************)
Respond(r) ==
    /\ response' = r
    /\ responses' = responses + 1
    /\ pc' = "done"

\* A POST arrives at one of the routes; Flask decodes the body.
ReceiveRequest ==
    /\ spc = "ready"
    /\ pc = "idle"
    /\ \E ep \in Endpoints, body \in Bodies :
          /\ endpoint' = ep
          /\ data' = body
    /\ pc' = "received"
    /\ UNCHANGED <<shots, parsed, circuit, warned, remoteFailed, backendName,
                   result, aerErr, response, remoteCalls, submitted,
                   localRuns, responses>>
    /\ UNCHANGED startupVars

\* lines 132-133: the body is rejected.
RejectMissingQasm ==
    /\ endpoint = "simulate"
    /\ pc = "received"
    /\ MissingQasmCheck(data)
    /\ Respond(ErrorResponse(400, MissingQasmError))
    /\ UNCHANGED <<endpoint, data, shots, parsed, circuit, warned,
                   remoteFailed, backendName, result, aerErr, remoteCalls,
                   submitted, localRuns>>
    /\ UNCHANGED startupVars

\* lines 132-135 raise TypeError; Flask answers 500.
BodyTypeError ==
    /\ endpoint = "simulate"
    /\ pc = "received"
    /\ BodyRaises(data)
    /\ Respond(UnhandledResponse)
    /\ UNCHANGED <<endpoint, data, shots, parsed, circuit, warned,
                   remoteFailed, backendName, result, aerErr, remoteCalls,
                   submitted, localRuns>>
    /\ UNCHANGED startupVars

\* lines 135-137: the fields of the body are read.
ReadFields ==
    /\ endpoint = "simulate"
    /\ pc = "received"
    /\ ~MissingQasmCheck(data)
    /\ ~BodyRaises(data)
    /\ shots' \in ShotChoices
    /\ pc' = "parse"
    /\ UNCHANGED <<endpoint, data, parsed, circuit, warned, remoteFailed,
                   backendName, result, aerErr, response, remoteCalls,
                   submitted, localRuns, responses>>
    /\ UNCHANGED startupVars

\* lines 141-142: the QASM text parses.
ParseQasm ==
    /\ endpoint = "simulate"
    /\ pc = "parse"
    /\ \E c \in ParsedCircuits :
          /\ parsed' = c
          /\ circuit' = c
    /\ pc' = "normalize"
    /\ UNCHANGED <<endpoint, data, shots, warned, remoteFailed, backendName,
                   result, aerErr, response, remoteCalls, submitted,
                   localRuns, responses>>
    /\ UNCHANGED startupVars

\* lines 144-146: the QASM text does not parse.
ParseFails ==
    /\ endpoint = "simulate"
    /\ pc = "parse"
    /\ Respond(ErrorResponse(400, InvalidQasmError))
    /\ UNCHANGED <<endpoint, data, shots, parsed, circuit, warned,
                   remoteFailed, backendName, result, aerErr, remoteCalls,
                   submitted, localRuns>>
    /\ UNCHANGED startupVars

\* lines 148-185: the measurement handling runs to its end.
Normalize ==
    /\ endpoint = "simulate"
    /\ pc = "normalize"
    /\ circuit' = NormalizeCircuit(circuit)
    /\ warned' = ClbitWarning(circuit)
    /\ pc' = "select"
    /\ UNCHANGED <<endpoint, data, shots, parsed, remoteFailed, backendName,
                   result, aerErr, response, remoteCalls, submitted,
                   localRuns, responses>>
    /\ UNCHANGED startupVars

\* line 162: QuantumCircuit documents no remove_register method; where the
\* installed qiskit has none the call raises AttributeError, which nothing
\* in the handler catches, and Flask answers 500.
NormalizeRaises ==
    /\ endpoint = "simulate"
    /\ pc = "normalize"
    /\ RemovesRegisters(circuit)
    /\ Respond(UnhandledResponse)
    /\ UNCHANGED <<endpoint, data, shots, parsed, circuit, warned,
                   remoteFailed, backendName, result, aerErr, remoteCalls,
                   submitted, localRuns>>
    /\ UNCHANGED startupVars

\* Fault: the simulators-available flag is not consulted.
RemoteEnabledIgnoresFlag == service # "None"

\* line 188: service and ibm_simulators_available
RemoteEnabled == service # "None" /\ ibm_simulators_available

\* line 188, condition true: the remote attempt starts.
EnterRemote ==
    /\ pc = "select"
    /\ RemoteEnabled
    /\ pc' = "resolve"
    /\ UNCHANGED <<endpoint, data, shots, parsed, circuit, warned,
                   remoteFailed, backendName, result, aerErr, response,
                   remoteCalls, submitted, localRuns, responses>>
    /\ UNCHANGED startupVars

\* line 188, condition false: straight to line 235.
SkipRemote ==
    /\ pc = "select"
    /\ ~RemoteEnabled
    /\ pc' = "local"
    /\ UNCHANGED <<endpoint, data, shots, parsed, circuit, warned,
                   remoteFailed, backendName, result, aerErr, response,
                   remoteCalls, submitted, localRuns, responses>>
    /\ UNCHANGED startupVars

\* Fault: a failed remote attempt is tried again instead of falling back.
FallBackRetries ==
    /\ remoteFailed' = TRUE
    /\ pc' = "resolve"

\* lines 231-233: the except clause of the remote attempt.
FallBack ==
    /\ remoteFailed' = TRUE
    /\ pc' = "local"

\* lines 194-196: the requested backend resolves.
ResolveRequested ==
    /\ pc = "resolve"
    /\ backendName' = "requested"
    /\ remoteCalls' = remoteCalls + 1
    /\ pc' = "transpile"
    /\ UNCHANGED <<endpoint, data, shots, parsed, circuit, warned,
                   remoteFailed, result, aerErr, response, submitted,
                   localRuns, responses>>
    /\ UNCHANGED startupVars

\* lines 197-203: service.backend raised; the first listed simulator is taken.
ResolveFirstSimulator ==
    /\ pc = "resolve"
    /\ backendName' = "first_simulator"
    /\ remoteCalls' = remoteCalls + 2
    /\ pc' = "transpile"
    /\ UNCHANGED <<endpoint, data, shots, parsed, circuit, warned,
                   remoteFailed, result, aerErr, response, submitted,
                   localRuns, responses>>
    /\ UNCHANGED startupVars

\* lines 197-201: service.backend raised and the listing raised or was empty.
ResolveFails ==
    /\ pc = "resolve"
    /\ remoteCalls' = remoteCalls + 2
    /\ FallBack
    /\ UNCHANGED <<endpoint, data, shots, parsed, circuit, warned,
                   backendName, result, aerErr, response, submitted,
                   localRuns, responses>>
    /\ UNCHANGED startupVars

\* lines 205-206: transpile for the selected backend.
Transpile ==
    /\ pc = "transpile"
    /\ remoteCalls' = remoteCalls + 1
    /\ pc' = "submit"
    /\ UNCHANGED <<endpoint, data, shots, parsed, circuit, warned,
                   remoteFailed, backendName, result, aerErr, response,
                   submitted, localRuns, responses>>
    /\ UNCHANGED startupVars

\* line 206 raises.
TranspileRaises ==
    /\ pc = "transpile"
    /\ remoteCalls' = remoteCalls + 1
    /\ FallBack
    /\ UNCHANGED <<endpoint, data, shots, parsed, circuit, warned,
                   backendName, result, aerErr, response, submitted,
                   localRuns, responses>>
    /\ UNCHANGED startupVars

\* lines 208-211: service.run returns a job.
SubmitJob ==
    /\ pc = "submit"
    /\ remoteCalls' = remoteCalls + 1
    /\ submitted' = submitted + 1
    /\ pc' = "await"
    /\ UNCHANGED <<endpoint, data, shots, parsed, circuit, warned,
                   remoteFailed, backendName, result, aerErr, response,
                   localRuns, responses>>
    /\ UNCHANGED startupVars

\* line 210 raises.
SubmitRaises ==
    /\ pc = "submit"
    /\ remoteCalls' = remoteCalls + 1
    /\ submitted' = submitted + 1
    /\ FallBack
    /\ UNCHANGED <<endpoint, data, shots, parsed, circuit, warned,
                   backendName, result, aerErr, response, localRuns,
                   responses>>
    /\ UNCHANGED startupVars

\* line 212: job.result() returns.
AwaitResult ==
    /\ pc = "await"
    /\ result' \in RemoteResults(circuit, shots)
    /\ remoteCalls' = remoteCalls + 1
    /\ pc' = "shape"
    /\ UNCHANGED <<endpoint, data, shots, parsed, circuit, warned,
                   remoteFailed, backendName, aerErr, response, submitted,
                   localRuns, responses>>
    /\ UNCHANGED startupVars

\* line 212 raises.
AwaitRaises ==
    /\ pc = "await"
    /\ remoteCalls' = remoteCalls + 1
    /\ FallBack
    /\ UNCHANGED <<endpoint, data, shots, parsed, circuit, warned,
                   backendName, result, aerErr, response, submitted,
                   localRuns, responses>>
    /\ UNCHANGED startupVars

\* lines 213-229: the counts are shaped and the remote response is sent.
ShapeAndRespond ==
    /\ pc = "shape"
    /\ Respond(RemoteSuccess(backendName, shots,
                             ShapeCounts(result, circuit, shots)))
    /\ UNCHANGED <<endpoint, data, shots, parsed, circuit, warned,
                   remoteFailed, backendName, result, aerErr, remoteCalls,
                   submitted, localRuns>>
    /\ UNCHANGED startupVars

\* lines 213-229 raise (a key int() rejects, job.job_id(), jsonify).
ShapeRaises ==
    /\ pc = "shape"
    /\ FallBack
    /\ UNCHANGED <<endpoint, data, shots, parsed, circuit, warned,
                   backendName, result, aerErr, response, remoteCalls,
                   submitted, localRuns, responses>>
    /\ UNCHANGED startupVars

\* lines 236-258: local execution succeeds.
RunLocal ==
    /\ pc = "local"
    /\ localRuns' = localRuns + 1
    /\ \E v \in {"0", "1"} :
          Respond(LocalSuccess(shots, (RegisterKey(circuit.cregs, v) :> shots)))
    /\ UNCHANGED <<endpoint, data, shots, parsed, circuit, warned,
                   remoteFailed, backendName, result, aerErr, remoteCalls,
                   submitted>>
    /\ UNCHANGED startupVars

\* lines 259-263: local execution raises.
LocalFails ==
    /\ pc = "local"
    /\ localRuns' = localRuns + 1
    /\ \E e \in LocalErrors :
          /\ aerErr' = e
          /\ Respond(LocalFailure(e))
    /\ UNCHANGED <<endpoint, data, shots, parsed, circuit, warned,
                   remoteFailed, backendName, result, remoteCalls, submitted>>
    /\ UNCHANGED startupVars

\* The response has been sent; the next request starts from a fresh frame.
Finish ==
    /\ pc = "done"
    /\ endpoint' = "simulate"
    /\ pc' = "idle"
    /\ data' = NoBody
    /\ shots' = 0
    /\ parsed' = NoCircuit
    /\ circuit' = NoCircuit
    /\ warned' = FALSE
    /\ remoteFailed' = FALSE
    /\ backendName' = NoName
    /\ result' = NoResult
    /\ aerErr' = NoName
    /\ response' = NoResponse
    /\ remoteCalls' = 0
    /\ submitted' = 0
    /\ localRuns' = 0
    /\ responses' = 0
    /\ UNCHANGED startupVars

Simulate ==
    \/ RejectMissingQasm
    \/ BodyTypeError
    \/ ReadFields
    \/ ParseQasm
    \/ ParseFails
    \/ Normalize
    \/ NormalizeRaises
    \/ EnterRemote
    \/ SkipRemote
    \/ ResolveRequested
    \/ ResolveFirstSimulator
    \/ ResolveFails
    \/ Transpile
    \/ TranspileRaises
    \/ SubmitJob
    \/ SubmitRaises
    \/ AwaitResult
    \/ AwaitRaises
    \/ ShapeAndRespond
    \/ ShapeRaises
    \/ RunLocal
    \/ LocalFails

(***************************************************************************)
(* /get_statevector and /get_probabilities.  Their handlers are not in     *)
(* app.py; they are modelled from the design document (sections 4.1, 4.4,  *)
(* 6 and 7).                                                               *)
(***************************************************************************)
\* The circuits sent to the amplitude endpoints: a gate, then possibly a
\* final measurement of qubit 0.
AmplitudeCircuits ==
    UNION { { [nq |-> nq,
               cregs |-> IF nq > 0 THEN <<[name |-> "c0", size |-> 1]>> ELSE <<>>,
               ops |-> GatePrefix(nq) \o ms] :
                ms \in IF nq > 0 THEN {<<>>, <<Measure(0, 0)>>} ELSE {<<>>} } :
            nq \in 0..MaxAmpQubits }

\* Section 4.1: strip all trailing measurement operations.
RECURSIVE StripFinalMeasurements(_)
StripFinalMeasurements(circ) ==
    IF circ.ops # <<>> /\ circ.ops[Len(circ.ops)].name = "measure"
    THEN StripFinalMeasurements(
             [circ EXCEPT !.ops = SubSeq(@, 1, Len(@) - 1)])
    ELSE circ

\* Fault: the zero-qubit circuit is not rejected.
AmplitudeRejectsOnlyLarge(circ) == num_qubits(circ) > QubitCeiling

\* Section 4.1: zero qubits or more than the ceiling is an error.
AmplitudeRejects(circ) ==
    \/ num_qubits(circ) = 0
    \/ num_qubits(circ) > QubitCeiling

AmplitudeSuccess ==
    [status |-> 200, error |-> NoError, backend_used |-> LOCAL_BACKEND,
     job_id |-> NoName, shots |-> 0, counts |-> NoCounts]

\* Section 8, property 6: no 'qasm' field, HTTP 400 with an error field.
AmplitudeMissingQasm ==
    /\ endpoint \in AmplitudeEndpoints
    /\ pc = "received"
    /\ ~HasQasmField(data)
    /\ Respond(ErrorResponse(400, MissingQasmError))
    /\ UNCHANGED <<endpoint, data, shots, parsed, circuit, warned,
                   remoteFailed, backendName, result, aerErr, remoteCalls,
                   submitted, localRuns>>
    /\ UNCHANGED startupVars

\* Section 4.4: the circuit description parses.
AmplitudeParse ==
    /\ endpoint \in AmplitudeEndpoints
    /\ pc = "received"
    /\ HasQasmField(data)
    /\ \E c \in AmplitudeCircuits :
          /\ parsed' = c
          /\ circuit' = c
    /\ pc' = "strip"
    /\ UNCHANGED <<endpoint, data, shots, warned, remoteFailed, backendName,
                   result, aerErr, response, remoteCalls, submitted,
                   localRuns, responses>>
    /\ UNCHANGED startupVars

\* Section 4.4: the circuit description does not parse.
AmplitudeParseFails ==
    /\ endpoint \in AmplitudeEndpoints
    /\ pc = "received"
    /\ HasQasmField(data)
    /\ Respond(ErrorResponse(400, InvalidQasmError))
    /\ UNCHANGED <<endpoint, data, shots, parsed, circuit, warned,
                   remoteFailed, backendName, result, aerErr, remoteCalls,
                   submitted, localRuns>>
    /\ UNCHANGED startupVars

\* Section 4.1: final measurements are stripped, then the qubit count is
\* checked; a circuit outside the limits is rejected.
AmplitudeReject ==
    /\ endpoint \in AmplitudeEndpoints
    /\ pc = "strip"
    /\ AmplitudeRejects(StripFinalMeasurements(circuit))
    /\ circuit' = StripFinalMeasurements(circuit)
    /\ Respond(ErrorResponse(400, QubitCountError))
    /\ UNCHANGED <<endpoint, data, shots, parsed, warned, remoteFailed,
                   backendName, result, aerErr, remoteCalls, submitted,
                   localRuns>>
    /\ UNCHANGED startupVars

\* Section 4.1: a circuit within the limits goes on to the computation.
AmplitudeAccept ==
    /\ endpoint \in AmplitudeEndpoints
    /\ pc = "strip"
    /\ ~AmplitudeRejects(StripFinalMeasurements(circuit))
    /\ circuit' = StripFinalMeasurements(circuit)
    /\ pc' = "compute"
    /\ UNCHANGED <<endpoint, data, shots, parsed, warned, remoteFailed,
                   backendName, result, aerErr, response, remoteCalls,
                   submitted, localRuns, responses>>
    /\ UNCHANGED startupVars

\* Section 6: the amplitudes are computed and returned.
AmplitudeCompute ==
    /\ endpoint \in AmplitudeEndpoints
    /\ pc = "compute"
    /\ localRuns' = localRuns + 1
    /\ Respond(AmplitudeSuccess)
    /\ UNCHANGED <<endpoint, data, shots, parsed, circuit, warned,
                   remoteFailed, backendName, result, aerErr, remoteCalls,
                   submitted>>
    /\ UNCHANGED startupVars

\* Section 6: the computation fails, HTTP 500.
AmplitudeComputeFails ==
    /\ endpoint \in AmplitudeEndpoints
    /\ pc = "compute"
    /\ localRuns' = localRuns + 1
    /\ Respond(ErrorResponse(500, ComputeError))
    /\ UNCHANGED <<endpoint, data, shots, parsed, circuit, warned,
                   remoteFailed, backendName, result, aerErr, remoteCalls,
                   submitted>>
    /\ UNCHANGED startupVars

Amplitude ==
    \/ AmplitudeMissingQasm
    \/ AmplitudeParse
    \/ AmplitudeParseFails
    \/ AmplitudeReject
    \/ AmplitudeAccept
    \/ AmplitudeCompute
    \/ AmplitudeComputeFails

Next ==
    \/ Startup
    \/ ReceiveRequest
    \/ Simulate
    \/ Amplitude
    \/ Finish

Spec == Init /\ [][Next]_vars

(***************************************************************************)
(* Properties.                                                             *)
(***************************************************************************)
\* Positions of the /simulate handler after the measurement handling.
RemotePositions == {"resolve", "transpile", "submit", "await", "shape"}

ExecutionPositions == {"select", "local"} \cup RemotePositions

SimulateDone == endpoint = "simulate" /\ pc = "done"

\* The remote result was retrieved and has none of the handled shapes.
MalformedResult == result.kind = "unrecognised"

IsBit(ch) == ch \in {"0", "1"}

IsBinaryString(key) == \A i \in 1..Len(key) : IsBit(key[i])

RECURSIVE BinValue(_)
BinValue(key) ==
    IF key = <<>> THEN 0
    ELSE 2 * BinValue(SubSeq(key, 1, Len(key) - 1))
         + (IF key[Len(key)] = "1" THEN 1 ELSE 0)

Abs(x) == IF x < 0 THEN -x ELSE x

\* c is x / ProbDenominator rounded to a nearest integer.
IsRounded(c, x) == 2 * Abs(x - c * ProbDenominator) <= ProbDenominator

\* c is x / ProbDenominator truncated towards zero.
IsTruncated(c, x) ==
    IF x >= 0
    THEN c >= 0 /\ c * ProbDenominator <= x /\ x < (c + 1) * ProbDenominator
    ELSE c <= 0 /\ (c - 1) * ProbDenominator < x /\ x <= c * ProbDenominator

\* C1: when the remote attempt fails at any step (an exception in backend
\* resolution, transpilation, submission, result retrieval or shaping, or a
\* malformed result), the request falls back to local execution: local
\* execution runs, a local success is answered 200 with backend_used
\* 'local_aer_simulator', and an error answer only follows a local failure.
C1_RemoteFailureFallsBack ==
    (SimulateDone /\ (remoteFailed \/ MalformedResult)) =>
        /\ localRuns = 1
        /\ aerErr = NoName =>
             (response.status = 200 /\ response.backend_used = LOCAL_BACKEND)
        /\ response.status # 200 => aerErr # NoName

\* C2: a parsed circuit of N >= 1 qubits without measurements is executed
\* with exactly one classical register, of N bits, and exactly one measurement
\* per qubit i, into classical bit i; every key of the returned counts is a
\* binary string of length N.
C2_UnmeasuredCircuitGetsOneRegister ==
    (/\ endpoint = "simulate"
     /\ parsed # NoCircuit
     /\ parsed.nq >= 1
     /\ ~has_measure_ops(parsed)) =>
        /\ pc \in ExecutionPositions =>
             /\ Len(circuit.cregs) = 1
             /\ circuit.cregs[1].size = parsed.nq
             /\ \A q \in 0..(parsed.nq - 1) :
                   Cardinality({ i \in 1..Len(circuit.ops) :
                                   /\ circuit.ops[i].name = "measure"
                                   /\ circuit.ops[i].q = q }) = 1
             /\ \A i \in 1..Len(circuit.ops) :
                   circuit.ops[i].name = "measure" =>
                       circuit.ops[i].c = circuit.ops[i].q
        /\ (pc = "done" /\ response.status = 200) =>
             \A key \in DOMAIN response.counts :
                 IsBinaryString(key) /\ Len(key) = parsed.nq

\* C3: with the service unset or no remote simulator found at start-up, a
\* /simulate request makes no remote call and never enters the remote
\* attempt; a successful response names the local backend and has no job_id.
C3_RemoteDisabledGoesLocal ==
    (endpoint = "simulate"
     /\ (service = "None" \/ ~ibm_simulators_available)) =>
        /\ remoteCalls = 0
        /\ submitted = 0
        /\ pc \notin RemotePositions
        /\ response.status = 200 =>
             /\ response.backend_used = LOCAL_BACKEND
             /\ response.job_id = NoName
             /\ localRuns = 1

C3_Witness ==
    /\ SimulateDone
    /\ service = "svc"
    /\ ~ibm_simulators_available
    /\ response.status = 200
    /\ response.backend_used = LOCAL_BACKEND

\* C4: a POST whose body has no 'qasm' field is answered 400 with an error
\* field, and no circuit is parsed or executed, on each of the three routes.
C4_MissingQasmIs400 ==
    (pc = "done" /\ ~HasQasmField(data)) =>
        /\ response.status = 400
        /\ response.error # NoError
        /\ parsed = NoCircuit
        /\ localRuns = 0
        /\ remoteCalls = 0

\* C5: once local execution of a /simulate request has failed the request is
\* over: the response is HTTP 500, its error field carries the message of
\* the exception, local execution ran once and nothing runs after it.
C5_LocalFailureIsTerminal ==
    (endpoint = "simulate" /\ aerErr # NoName) =>
        /\ pc = "done"
        /\ responses = 1
        /\ response.status = 500
        /\ \E i \in 1..Len(response.error) : response.error[i] = aerErr
        /\ localRuns = 1
        /\ submitted <= 1

C5_Witness ==
    /\ SimulateDone
    /\ aerErr = "QiskitError"
    /\ remoteFailed
    /\ response.status = 500

\* C6: the amplitude endpoints answer 400, without computing, every parsed
\* circuit of zero qubits or of more than 16 qubits, and pass every parsed
\* circuit of 1 to 16 qubits on to the computation.
C6_QubitCeiling ==
    (endpoint \in AmplitudeEndpoints /\ parsed # NoCircuit) =>
        /\ pc = "compute" => parsed.nq \in 1..QubitCeiling
        /\ pc = "done" =>
             IF parsed.nq = 0 \/ parsed.nq >= QubitCeiling + 1
             THEN response.status = 400 /\ localRuns = 0
             ELSE response.status # 400 /\ localRuns = 1

C6_Witness ==
    /\ endpoint \in AmplitudeEndpoints
    /\ pc = "done"
    /\ parsed # NoCircuit
    /\ parsed.nq = QubitCeiling + 1
    /\ response.status = 400

\* C7: a failure at any point of the start-up probe leaves the service unset
\* and the simulators-available flag false.
C7_ProbeFailureClearsFlags ==
    (spc = "ready" /\ initFailed) =>
        (service = "None" /\ ~ibm_simulators_available)

\* C8: a circuit that already holds a measurement is not altered by the
\* measurement handling; a measured classical-bit index that is not below the
\* classical-bit count is flagged as a warning only, and the request goes on
\* to execution and is not rejected.
C8_MeasuredCircuitUnchanged ==
    (/\ endpoint = "simulate"
     /\ parsed # NoCircuit
     /\ has_measure_ops(parsed)) =>
        /\ circuit = parsed
        /\ pc # "normalize" =>
             (warned <=> \E i \in 1..Len(parsed.ops) :
                            /\ parsed.ops[i].name = "measure"
                            /\ parsed.ops[i].c >= SumSizes(parsed.cregs))
        /\ pc = "done" =>
             /\ response.status # 400
             /\ localRuns = 1 \/ (submitted = 1 /\ response.status = 200)

C8_Witness ==
    /\ SimulateDone
    /\ has_measure_ops(parsed)
    /\ warned
    /\ circuit = parsed
    /\ response.status = 200

\* The entries of a quasi-distribution and the counts returned for them.
QuasiReturned ==
    /\ SimulateDone
    /\ result.kind = "quasi"
    /\ response.status = 200
    /\ response.job_id # NoName

\* The key width the claim names: the classical-bit count, or the qubit
\* count when that is zero.
QuasiWidth ==
    IF SumSizes(circuit.cregs) > 0 THEN SumSizes(circuit.cregs) ELSE circuit.nq

\* The returned keys that are k written in binary at the claimed width.
QuasiKeysOf(k) ==
    { key \in DOMAIN response.counts :
        /\ IsBinaryString(key)
        /\ BinValue(key) = k
        /\ Len(key) = (IF QuasiWidth = 0 THEN 1 ELSE QuasiWidth) }

\* Every entry has exactly one such key and there are no other keys.
QuasiKeysShaped ==
    /\ Cardinality(DOMAIN response.counts)
         = Cardinality(DOMAIN result.payload)
    /\ \A k \in DOMAIN result.payload : Cardinality(QuasiKeysOf(k)) = 1

\* C9: every entry (k, p) of a remote quasi-distribution is returned under
\* the key k in binary, zero-padded to the classical-bit count (the qubit
\* count when that is zero), with the count round(p * shots).
C9_QuasiCountsRounded ==
    QuasiReturned =>
        /\ QuasiKeysShaped
        /\ \A k \in DOMAIN result.payload : \A key \in QuasiKeysOf(k) :
              IsRounded(response.counts[key], result.payload[k] * shots)

\* C9, amended: every entry (k, p) of a remote quasi-distribution is returned
\* under the key k in binary, zero-padded to the classical-bit count (the
\* qubit count when that is zero), with the count p * shots truncated
\* towards zero.
C9_QuasiCountsTruncated ==
    QuasiReturned =>
        /\ QuasiKeysShaped
        /\ \A k \in DOMAIN result.payload : \A key \in QuasiKeysOf(k) :
              IsTruncated(response.counts[key], result.payload[k] * shots)

C9_Witness ==
    /\ QuasiReturned
    /\ \E k \in DOMAIN result.payload :
          /\ k > 0
          /\ (result.payload[k] * shots) % ProbDenominator # 0
          /\ result.payload[k] > 0

\* C10: a /simulate request submits at most one remote job and runs local
\* execution at most once; local execution starts only after the remote
\* attempt was skipped or failed; the request ends with exactly one response,
\* whose backend_used names the backend that produced the counts.
C10_NoRetries ==
    endpoint = "simulate" =>
        /\ submitted <= 1
        /\ localRuns <= 1
        /\ responses <= 1
        /\ pc = "done" => responses = 1
        /\ (pc = "local" \/ localRuns = 1) =>
             /\ remoteFailed \/ remoteCalls = 0
             /\ response.job_id = NoName
        /\ response.status = 200 =>
             IF localRuns = 1
             THEN response.backend_used = LOCAL_BACKEND
             ELSE /\ submitted = 1
                  /\ ~remoteFailed
                  /\ response.backend_used = backendName
                  /\ response.backend_used \notin {NoName, LOCAL_BACKEND}

C10_Witness ==
    /\ SimulateDone
    /\ remoteFailed
    /\ submitted = 1
    /\ localRuns = 1
    /\ response.status = 200
    /\ response.backend_used = LOCAL_BACKEND

====
